---- MODULE Spec2Model ----
(***************************************************************************)
(* Model of the git-toolkit extension: the squash command                  *)
(* (src/command/gitSquashCommits.ts) driving a git repository through      *)
(* execCommand (src/utils.ts).                                             *)
(*                                                                         *)
(* The repository is a record                                              *)
(*   commits  : sequence of commit objects, a commit's hash is its index   *)
(*   branches : branch name -> hash of its tip                             *)
(*   head     : name of the checked-out branch                             *)
(*   wt       : set of uncommitted changes in the working tree             *)
(*   stash    : stash list, stash@{0} first                                *)
(*   cp       : state of an unfinished cherry-pick                         *)
(* History is linear (merge commits are excluded from the listing), a      *)
(* commit's tree is the union of the changes of its ancestors.             *)
(***************************************************************************)
EXTENDS Integers, Sequences, FiniteSets, TLC

\* ------------------------------------------------------------------ bounds
MaxHist == 5
MaxDate == 2
MaxAttempts == 2
MaxFaults == 1
MaxMsgHist == 4
MaxPulls == 3
MaxUpstream == 2
MaxOps == 4

\* ------------------------------------------------------- program constants
MAX_COMMITS == 10

TEMP_BRANCH_PREFIX == "temp-squash"

MainBranch == <<"main", 0>>

\* stash messages of gitPullRebase (src/utils.ts)
NOT_COMMIT_STASH == <<"not-commit", 0>>

LOCAL_DEBUG_STASH == <<"local-debug", 0>>

\* the files the user keeps local debug code in
DebugFiles == {"d1", "d2"}

\* Default changelist name (src/model/changelist.ts)
DEFAULT_CHANGELIST_NAME == <<"Default">>

\* the git workspace folders, in the order of vscode.workspace.workspaceFolders
Workspaces == << <<"w1">>, <<"w2">> >>

\* the names the user gives to changelists
ListNames == {<<"A">>, <<"B">>}

\* the files of a workspace, in the order git lists them
Files == <<"f1", "f2">>

\* ----------------------------------------------------------- sequence help
Range(s) == {s[i] : i \in 1..Len(s)}

Reverse(s) == [i \in 1..Len(s) |-> s[Len(s) + 1 - i]]

\* Array.prototype.filter with a membership test
RECURSIVE FilterIn(_, _)
FilterIn(s, S) ==
    IF s = <<>> THEN <<>>
    ELSE IF Head(s) \in S THEN <<Head(s)>> \o FilterIn(Tail(s), S)
    ELSE FilterIn(Tail(s), S)

\* Array.prototype.indexOf, 0-based, -1 when absent
IndexOf(s, x) ==
    IF x \in Range(s) THEN (CHOOSE i \in 1..Len(s) : s[i] = x /\ \A j \in 1..(i - 1) : s[j] # x) - 1
    ELSE -1

\* insertion of x behind every element whose key is <= key[x] (stable)
RECURSIVE InsertByKey(_, _, _)
InsertByKey(s, x, key) ==
    IF s = <<>> THEN <<x>>
    ELSE IF key[x] < key[Head(s)] THEN <<x>> \o s
    ELSE <<Head(s)>> \o InsertByKey(Tail(s), x, key)

\* Array.prototype.sort((a, b) => key(a) - key(b)): ascending and stable
RECURSIVE SortByKey(_, _)
SortByKey(s, key) ==
    IF s = <<>> THEN <<>>
    ELSE InsertByKey(SortByKey(SubSeq(s, 1, Len(s) - 1), key), s[Len(s)], key)

\* ---------------------------------------------------------------- messages
\* A text is a sequence of tokens: words, and the line breaks below.
Newline == "\n"

BlankLine == "\n\n"

Whitespace == {Newline, BlankLine}

\* the messages the commits of the initial history carry
Messages == {<<"a">>, <<"b">>}

\* String.prototype.trim
RECURSIVE TrimStart(_)
TrimStart(t) ==
    IF t # <<>> /\ Head(t) \in Whitespace THEN TrimStart(Tail(t)) ELSE t

Trim(t) == Reverse(TrimStart(Reverse(TrimStart(t))))

\* Array.prototype.join
RECURSIVE Join(_, _)
Join(ms, sep) ==
    IF ms = <<>> THEN <<>>
    ELSE IF Len(ms) = 1 THEN ms[1]
    ELSE ms[1] \o <<sep>> \o Join(Tail(ms), sep)

\* ------------------------------------------------------------ commit graph
\* hashes reachable from h, newest first (git rev-list --topo-order h)
RECURSIVE Reachable(_, _)
Reachable(cs, h) ==
    IF h = 0 THEN <<>> ELSE <<h>> \o Reachable(cs, cs[h].parent)

\* git rev-list --topo-order incl ^excl
RevList(cs, incl, excl) ==
    LET out == Range(Reachable(cs, excl))
    IN  FilterIn(Reachable(cs, incl), Range(Reachable(cs, incl)) \ out)

\* the content of a commit: every change made by it and its ancestors
RECURSIVE Tree(_, _)
Tree(cs, h) ==
    IF h = 0 THEN {} ELSE cs[h].chg \cup Tree(cs, cs[h].parent)

IsAncestor(cs, a, b) == a \in Range(Reachable(cs, b))

HeadCommit(r) == r.branches[r.head]

\* --------------------------------------------------- the git command model
\* Every execCommand resolves with stdout or rejects with an Error whose
\* message is the captured error text (src/utils.ts, execCommand).  A result
\* is [ok, r, text]: success, the repository afterwards, and the words of
\* the error text the callers test for.
Res(ok, r, text) == [ok |-> ok, r |-> r, text |-> text]

\* a command that could not be run or exited non-zero without touching the
\* repository
GatewayFailure(r) == Res(FALSE, r, {})

\* "The previous cherry-pick is now empty, possibly due to conflict resolution."
EmptyTexts == {{"empty", "conflict"}}

\* "error: could not apply <hash>... <subject>" followed by the hint
\* "after resolving the conflicts ..."; the subject is arbitrary text
ConflictTexts == {{"conflict"}, {"conflict", "empty"}}

\* a test for the wrong words
IsEmptyErrorWrongWord(text) == "nothing" \in text

\* cherryPickCommits: errorMessage.includes('empty')
IsEmptyError(text) == "empty" \in text

\* cherryPickCommits: errorMessage.includes('conflict')
IsConflictError(text) == "conflict" \in text

\* git checkout <branch>; refused while the index has unmerged entries
GitCheckout(r, b) ==
    IF b \notin DOMAIN r.branches \/ r.cp = "conflict" THEN GatewayFailure(r)
    ELSE Res(TRUE, [r EXCEPT !.head = b], {})

\* the branch is created but not checked out
GitCheckoutNewStaysOnBranch(r, b) ==
    IF b \in DOMAIN r.branches \/ r.cp = "conflict" THEN GatewayFailure(r)
    ELSE Res(TRUE, [r EXCEPT !.branches = [x \in DOMAIN r.branches \cup {b} |->
                                              IF x = b THEN HeadCommit(r) ELSE r.branches[x]]], {})

\* git checkout -b <branch>
GitCheckoutNew(r, b) ==
    IF b \in DOMAIN r.branches \/ r.cp = "conflict" THEN GatewayFailure(r)
    ELSE Res(TRUE, [r EXCEPT !.branches = [x \in DOMAIN r.branches \cup {b} |->
                                              IF x = b THEN HeadCommit(r) ELSE r.branches[x]],
                             !.head = b], {})

\* git reset --hard <hash>: moves the checked-out branch, discards the
\* uncommitted changes and any unfinished cherry-pick
GitResetHard(r, h) ==
    IF h \notin 1..Len(r.commits) THEN GatewayFailure(r)
    ELSE Res(TRUE, [r EXCEPT !.branches[r.head] = h, !.wt = {}, !.cp = "none"], {})

\* git stash push -m <name>; the entry remembers the tree it was made on
GitStashPush(r, name) ==
    IF r.wt = {} THEN Res(TRUE, r, {})
    ELSE Res(TRUE, [r EXCEPT !.stash = <<[name |-> name, content |-> r.wt,
                                          base |-> Tree(r.commits, HeadCommit(r))]>> \o r.stash,
                             !.wt = {}], {})

\* the stashed changes may fail to apply when the checked-out tree is not
\* the tree they were made on
StashPopMayConflict(r, i) ==
    i \in 1..Len(r.stash) /\ r.stash[i].base # Tree(r.commits, HeadCommit(r))

\* git stash pop stash@{i-1}; with a conflict the working tree gets the
\* conflict markers, the entry stays in the list and the command fails
GitStashPop(r, i, conflict) ==
    IF i \notin 1..Len(r.stash) THEN GatewayFailure(r)
    ELSE IF conflict /\ StashPopMayConflict(r, i)
    THEN Res(FALSE, [r EXCEPT !.wt = r.wt \cup {"<<<<<<<"}], {"conflict"})
    ELSE Res(TRUE, [r EXCEPT !.wt = r.wt \cup r.stash[i].content,
                             !.stash = SubSeq(r.stash, 1, i - 1) \o
                                       SubSeq(r.stash, i + 1, Len(r.stash))], {})

\* git branch -D <branch>
GitBranchDelete(r, b) ==
    IF b \notin DOMAIN r.branches \/ b = r.head THEN GatewayFailure(r)
    ELSE Res(TRUE, [r EXCEPT !.branches = [x \in DOMAIN r.branches \ {b} |-> r.branches[x]]], {})

\* git cherry-pick <hash>: the possible results.  The pick is empty when
\* the commit's changes are already in the tree; it cannot conflict when
\* it is replayed on the very tree it was made on.
GitCherryPick(r, c) ==
    LET h == HeadCommit(r)
        picked == [parent |-> h, chg |-> r.commits[c].chg, date |-> r.commits[c].date,
                   msg |-> r.commits[c].msg]
    IN  IF r.cp # "none" THEN {GatewayFailure(r)}
        ELSE IF r.commits[c].chg \subseteq Tree(r.commits, h)
        THEN {Res(FALSE, [r EXCEPT !.cp = "empty"], t) : t \in EmptyTexts}
        ELSE {Res(TRUE, [r EXCEPT !.commits = Append(r.commits, picked),
                                  !.branches[r.head] = Len(r.commits) + 1], {})}
             \cup (IF Tree(r.commits, h) = Tree(r.commits, r.commits[c].parent) THEN {}
                   ELSE {Res(FALSE, [r EXCEPT !.cp = "conflict"], t) : t \in ConflictTexts})

\* git cherry-pick --skip
GitCherryPickSkip(r) ==
    IF r.cp = "none" THEN GatewayFailure(r)
    ELSE Res(TRUE, [r EXCEPT !.cp = "none"], {})

\* git cherry-pick --abort
GitCherryPickAbort(r) ==
    IF r.cp = "none" THEN GatewayFailure(r)
    ELSE Res(TRUE, [r EXCEPT !.cp = "none"], {})

\* git write-tree; git rev-parse <hash>^; git commit-tree <tree> -p <parent>
\* -m <message>
GitCommitTree(r, p, when, message) ==
    IF r.cp = "conflict" \/ p \notin 1..Len(r.commits) THEN GatewayFailure(r)
    ELSE Res(TRUE, [r EXCEPT !.commits = Append(r.commits,
                        [parent |-> p,
                         chg |-> Tree(r.commits, HeadCommit(r)) \ Tree(r.commits, p),
                         date |-> when,
                         msg |-> message])], {})

\* ------------------------------------------------- gitSquashCommits.ts, pure
\* getCommits: the newest MAX_COMMITS commits of the current branch, newest
\* first
GetCommits(r) ==
    LET all == Reachable(r.commits, HeadCommit(r))
    IN  SubSeq(all, 1, IF Len(all) < MAX_COMMITS THEN Len(all) ELSE MAX_COMMITS)

\* the guard for a single selected commit left out
SelectionVerdictNoSingleGuard(s) ==
    IF Len(s) = 0 THEN "nothingSelected" ELSE "proceed"

\* what gitSquashCommits and squashSelectedCommits do with a selection
SelectionVerdict(s) ==
    IF Len(s) = 1 THEN "selectOneCommit"
    ELSE IF Len(s) = 0 THEN "nothingSelected"
    ELSE IF Len(s) < 2 THEN "selectAtLeastTwo"
    ELSE "proceed"

\* commits.sort((a, b) => new Date(a.date).getTime() - new Date(b.date).getTime())
SortCommits(cs, s) == SortByKey(s, [h \in Range(s) |-> cs[h].date])

\* getCommitRange sorting commitsToReapply the way it sorts laterCommits
GetCommitRangeReapplyNewestFirst(r, commits, allCommits, fault) ==
    LET cs == r.commits
        earliestHash == commits[1]
        latestHash == commits[Len(commits)]
        anchor == cs[earliestHash].parent
        commitOrder == RevList(cs, latestHash, anchor)
        selectedHashes == Range(commits)
        laterCommitHashes == RevList(cs, HeadCommit(r), latestHash)
        unselected == FilterIn(allCommits, Range(commitOrder) \ selectedHashes)
        laterListed == FilterIn(allCommits, Range(laterCommitHashes))
    IN  IF fault = 1 \/ anchor = 0 THEN [ok |-> FALSE, failed |-> "rev-list range"]
        ELSE IF fault = 2 THEN [ok |-> FALSE, failed |-> "rev-list later"]
        ELSE [ok |-> TRUE,
              commitsToSquash |-> commits,
              commitsToReapply |->
                  SortByKey(unselected, [h \in Range(unselected) |-> IndexOf(commitOrder, h)]),
              laterCommits |->
                  SortByKey(laterListed, [h \in Range(laterListed) |-> IndexOf(laterCommitHashes, h)])]

\* getCommitRange after the history listing: the two rev-list queries and
\* the two filter/sort pipelines.  fault names the rev-list that fails.
GetCommitRange(r, commits, allCommits, fault) ==
    LET cs == r.commits
        earliestHash == commits[1]
        latestHash == commits[Len(commits)]
        anchor == cs[earliestHash].parent
        commitOrder == RevList(cs, latestHash, anchor)
        selectedHashes == Range(commits)
        laterCommitHashes == RevList(cs, HeadCommit(r), latestHash)
        unselected == FilterIn(allCommits, Range(commitOrder) \ selectedHashes)
        laterListed == FilterIn(allCommits, Range(laterCommitHashes))
    IN  IF fault = 1 \/ anchor = 0 THEN [ok |-> FALSE, failed |-> "rev-list range"]
        ELSE IF fault = 2 THEN [ok |-> FALSE, failed |-> "rev-list later"]
        ELSE [ok |-> TRUE,
              commitsToSquash |-> commits,
              commitsToReapply |->
                  SortByKey(unselected, [h \in Range(unselected) |-> 0 - IndexOf(commitOrder, h)]),
              laterCommits |->
                  SortByKey(laterListed, [h \in Range(laterListed) |-> IndexOf(laterCommitHashes, h)])]

\* getCommitMessage: git log -1 --pretty=%B prints the message and a line
\* break; the output is trimmed
GetCommitMessage(r, h) == Trim(r.commits[h].msg \o <<Newline>>)

\* prepareCommitMessage: the messages of the commits, reversed
CommitMessages(r, commits) ==
    Reverse([i \in 1..Len(commits) |-> GetCommitMessage(r, commits[i])])

\* commitMessages.every(msg => msg === commitMessages[0])
AllMessagesAreSame(ms) == \A i \in 1..Len(ms) : ms[i] = ms[1]

\* the default message without the test for equal messages
DefaultMessageAlwaysJoined(ms) == Join(ms, BlankLine)

\* prepareCommitMessage: the message put into the editor
DefaultMessage(ms) ==
    IF AllMessagesAreSame(ms) THEN ms[1] ELSE Join(ms, BlankLine)

\* the value `undefined`
Undefined == [defined |-> FALSE, text |-> <<>>]

\* showCommitMessageEditor: the trimmed text of the document when the user
\* answers OK, undefined otherwise
ShowCommitMessageEditor(text, editResult) ==
    IF editResult = "ok" THEN [defined |-> TRUE, text |-> Trim(text)] ELSE Undefined

\* a test that lets undefined pass
NoMessageOnlyWhenEmpty(m) == m.defined /\ m.text = <<>>

\* squashSelectedCommits: if (!newMessage) return
NoMessage(m) == ~m.defined \/ m.text = <<>>

\* `${TEMP_BRANCH_PREFIX}-${Date.now()}`
TempName(t) == <<TEMP_BRANCH_PREFIX, t>>

\* saveGitState that never sees the uncommitted changes
SaveGitStateNeverDirty(r, t) ==
    [currentBranch |-> r.head,
     originalHead |-> HeadCommit(r),
     tempBranch |-> TempName(t),
     hasChanges |-> FALSE,
     stashName |-> TempName(t)]

\* saveGitState
SaveGitState(r, t) ==
    [currentBranch |-> r.head,
     originalHead |-> HeadCommit(r),
     tempBranch |-> TempName(t),
     hasChanges |-> r.wt # {},
     stashName |-> TempName(t)]

\* stashLine.includes(message)
StashLineIncludes(entry, message) == entry.name = message

\* restoreStash (src/utils.ts); fault 4 fails `stash list`, 5 fails `stash pop`
RestoreStash(r, message, fault, conflict) ==
    LET hits == {i \in 1..Len(r.stash) : StashLineIncludes(r.stash[i], message)}
        first == CHOOSE i \in hits : \A j \in hits : i <= j
    IN  IF fault = 4 THEN [res |-> GatewayFailure(r), cmds |-> <<>>]
        ELSE IF hits = {} THEN [res |-> Res(TRUE, r, {}), cmds |-> <<>>]
        ELSE [res |-> IF fault = 5 THEN GatewayFailure(r) ELSE GitStashPop(r, first, conflict),
              cmds |-> << <<"stash pop", first>> >>]

\* restoreGitState resetting the branch whether or not it is given an error
RestoreGitStateAlwaysReset(r, state, error, fault, conflict) ==
    LET c1 == IF fault = 1 THEN GatewayFailure(r) ELSE GitCheckout(r, state.currentBranch)
        c2 == IF fault = 2 THEN GatewayFailure(c1.r) ELSE GitResetHard(c1.r, state.originalHead)
        r2 == IF TRUE THEN c2.r ELSE c1.r
        c3 == IF fault = 3 THEN GatewayFailure(r2) ELSE GitBranchDelete(r2, state.tempBranch)
        c4 == RestoreStash(c3.r, state.stashName, fault, conflict)
        k1 == << <<"checkout", 0>> >>
        k2 == IF TRUE THEN k1 \o << <<"reset", state.originalHead>> >> ELSE k1
        k3 == k2 \o << <<"branch -D", 0>> >>
    IN  IF ~c1.ok THEN [r |-> c1.r, cmds |-> k1, cleanupError |-> TRUE, injected |-> fault = 1]
        ELSE IF TRUE /\ ~c2.ok
        THEN [r |-> c2.r, cmds |-> k2, cleanupError |-> TRUE, injected |-> fault = 2]
        ELSE IF ~c3.ok THEN [r |-> c3.r, cmds |-> k3, cleanupError |-> TRUE, injected |-> fault = 3]
        ELSE IF ~state.hasChanges
        THEN [r |-> c3.r, cmds |-> k3, cleanupError |-> FALSE, injected |-> FALSE]
        ELSE [r |-> c4.res.r, cmds |-> k3 \o c4.cmds, cleanupError |-> ~c4.res.ok,
              injected |-> fault = 4 \/ (fault = 5 /\ c4.cmds # <<>>)]

\* restoreGitState: checkout, reset --hard when called with the error,
\* branch -D, restoreStash; the first rejection ends it and is only logged.
\* fault names the command that suffers a gateway failure (0: none),
\* conflict tells whether a stash pop that may conflict does.
RestoreGitState(r, state, error, fault, conflict) ==
    LET c1 == IF fault = 1 THEN GatewayFailure(r) ELSE GitCheckout(r, state.currentBranch)
        c2 == IF fault = 2 THEN GatewayFailure(c1.r) ELSE GitResetHard(c1.r, state.originalHead)
        r2 == IF error THEN c2.r ELSE c1.r
        c3 == IF fault = 3 THEN GatewayFailure(r2) ELSE GitBranchDelete(r2, state.tempBranch)
        c4 == RestoreStash(c3.r, state.stashName, fault, conflict)
        k1 == << <<"checkout", 0>> >>
        k2 == IF error THEN k1 \o << <<"reset", state.originalHead>> >> ELSE k1
        k3 == k2 \o << <<"branch -D", 0>> >>
    IN  IF ~c1.ok THEN [r |-> c1.r, cmds |-> k1, cleanupError |-> TRUE, injected |-> fault = 1]
        ELSE IF error /\ ~c2.ok
        THEN [r |-> c2.r, cmds |-> k2, cleanupError |-> TRUE, injected |-> fault = 2]
        ELSE IF ~c3.ok THEN [r |-> c3.r, cmds |-> k3, cleanupError |-> TRUE, injected |-> fault = 3]
        ELSE IF ~state.hasChanges
        THEN [r |-> c3.r, cmds |-> k3, cleanupError |-> FALSE, injected |-> FALSE]
        ELSE [r |-> c4.res.r, cmds |-> k3 \o c4.cmds, cleanupError |-> ~c4.res.ok,
              injected |-> fault = 4 \/ (fault = 5 /\ c4.cmds # <<>>)]

\* a rollback whose cleanup error takes the place of the error that caused it
SurfacedErrorCleanupWins(error, cleanupError) ==
    IF cleanupError THEN "cleanup" ELSE error

\* squashSelectedCommits, catch: restoreGitState logs its own error and
\* returns; the error that is thrown on is the one that was caught
SurfacedError(error, cleanupError) == error

\* ------------------------------------------------------------------- state
\* -------------------------------------------------------------- changelists
\* getChangelistKey: `${workspacePath}:${name}`
GetChangelistKey(workspacePath, name) == workspacePath \o <<":">> \o name

\* new Changelist(name, workspacePath, items); items holds the paths
Changelist(name, workspacePath, items) ==
    [name |-> name, workspacePath |-> workspacePath, items |-> items]

\* the empty Map
NoChangelists == [k \in {} |-> Changelist(<<>>, <<>>, <<>>)]

\* Map.prototype.set
MapSet(m, k, v) == [x \in DOMAIN m \cup {k} |-> IF x = k THEN v ELSE m[x]]

\* Map.prototype.delete
MapDelete(m, k) == [x \in DOMAIN m \ {k} |-> m[x]]

RECURSIVE SetToSeq(_)
SetToSeq(S) ==
    IF S = {} THEN <<>>
    ELSE LET x == CHOOSE y \in S : TRUE IN <<x>> \o SetToSeq(S \ {x})

\* the comparator of getChangelists: Default first, the others by
\* localeCompare
NameRank(name) ==
    IF name = DEFAULT_CHANGELIST_NAME THEN 0 ELSE IF name = <<"A">> THEN 1 ELSE 2

\* getChangelists(workspacePath)
GetChangelists(cls, workspacePath) ==
    LET mine == SetToSeq({cls[k] : k \in {x \in DOMAIN cls : cls[x].workspacePath = workspacePath}})
    IN  SortByKey(mine, [c \in Range(mine) |-> NameRank(c.name)])

\* Changelist.toJSON
ToJSON(cl) == [name |-> cl.name, items |-> cl.items]

\* contents of .vscode/changelists.json: no file, text that is not JSON,
\* JSON without a changelists array, or serialized data
MissingConfig == [kind |-> "missing", changelists |-> <<>>]

UnparseableConfig == [kind |-> "unparseable", changelists |-> <<>>]

NoListConfig == [kind |-> "noList", changelists |-> <<>>]

DataConfig(lists) == [kind |-> "data", changelists |-> lists]

\* saveState: errors are logged and swallowed
SaveStateFile(cls, cfg, workspacePath, ok) ==
    IF ok
    THEN LET lists == GetChangelists(cls, workspacePath)
         IN  [cfg EXCEPT ![workspacePath] = DataConfig([i \in 1..Len(lists) |-> ToJSON(lists[i])])]
    ELSE cfg

\* loadSerializedData: the default data when the file is missing or is not
\* JSON, else whatever JSON.parse returns
LoadSerializedData(content) ==
    IF content.kind \in {"missing", "unparseable"}
    THEN DataConfig(<<[name |-> DEFAULT_CHANGELIST_NAME, items |-> <<>>]>>)
    ELSE content

\* syncChangelistsWithGit, the loop over data.changelists
RECURSIVE SyncExisting(_, _, _, _)
SyncExisting(acc, workspacePath, lists, actualSkippedFiles) ==
    IF lists = <<>> THEN acc
    ELSE LET cl == Head(lists)
             validItems == FilterIn(cl.items, Range(actualSkippedFiles))
             key == GetChangelistKey(workspacePath, cl.name)
             cls == IF cl.name # DEFAULT_CHANGELIST_NAME
                    THEN MapSet(acc.cls, key, Changelist(cl.name, workspacePath, validItems))
                    ELSE IF key \in DOMAIN acc.cls
                    THEN [acc.cls EXCEPT ![key].items = validItems]
                    ELSE acc.cls
         IN  SyncExisting([cls |-> cls,
                           processedFiles |-> acc.processedFiles \cup Range(validItems),
                           hasRemovedFiles |-> acc.hasRemovedFiles \/ Len(validItems) < Len(cl.items)],
                          workspacePath, Tail(lists), actualSkippedFiles)

\* syncChangelistsWithGit leaving the unassigned files out of Default
SyncChangelistsWithGitNoNewFiles(cls, workspacePath, data, actualSkippedFiles) ==
    IF data.kind # "data"
    THEN [threw |-> TRUE, cls |-> cls, hasNewFiles |-> FALSE, hasRemovedFiles |-> FALSE]
    ELSE LET acc == SyncExisting([cls |-> cls, processedFiles |-> {}, hasRemovedFiles |-> FALSE],
                                 workspacePath, data.changelists, actualSkippedFiles)
             defaultKey == GetChangelistKey(workspacePath, DEFAULT_CHANGELIST_NAME)
             withDefault == IF defaultKey \in DOMAIN acc.cls THEN acc.cls
                            ELSE MapSet(acc.cls, defaultKey,
                                        Changelist(DEFAULT_CHANGELIST_NAME, workspacePath, <<>>))
             unprocessedFiles == FilterIn(actualSkippedFiles,
                                          Range(actualSkippedFiles) \ acc.processedFiles)
         IN  [threw |-> FALSE,
              cls |-> withDefault,
              hasNewFiles |-> unprocessedFiles # <<>>,
              hasRemovedFiles |-> acc.hasRemovedFiles]

\* syncChangelistsWithGit; iterating data.changelists throws when the
\* parsed JSON has no such array
SyncChangelistsWithGit(cls, workspacePath, data, actualSkippedFiles) ==
    IF data.kind # "data"
    THEN [threw |-> TRUE, cls |-> cls, hasNewFiles |-> FALSE, hasRemovedFiles |-> FALSE]
    ELSE LET acc == SyncExisting([cls |-> cls, processedFiles |-> {}, hasRemovedFiles |-> FALSE],
                                 workspacePath, data.changelists, actualSkippedFiles)
             defaultKey == GetChangelistKey(workspacePath, DEFAULT_CHANGELIST_NAME)
             withDefault == IF defaultKey \in DOMAIN acc.cls THEN acc.cls
                            ELSE MapSet(acc.cls, defaultKey,
                                        Changelist(DEFAULT_CHANGELIST_NAME, workspacePath, <<>>))
             unprocessedFiles == FilterIn(actualSkippedFiles,
                                          Range(actualSkippedFiles) \ acc.processedFiles)
         IN  [threw |-> FALSE,
              cls |-> [withDefault EXCEPT ![defaultKey].items = @ \o unprocessedFiles],
              hasNewFiles |-> unprocessedFiles # <<>>,
              hasRemovedFiles |-> acc.hasRemovedFiles]

\* loadWorkspaceState; lsOk: git ls-files -v succeeds (else the list of
\* skipped files is empty), saveOk: the configuration file can be written
LoadWorkspaceState(cls, cfg, flags, workspacePath, lsOk, saveOk) ==
    LET defaultKey == GetChangelistKey(workspacePath, DEFAULT_CHANGELIST_NAME)
        withDefault == MapSet(cls, defaultKey,
                              Changelist(DEFAULT_CHANGELIST_NAME, workspacePath, <<>>))
        actualSkippedFiles == IF lsOk THEN FilterIn(Files, flags[workspacePath]) ELSE <<>>
        data == LoadSerializedData(cfg[workspacePath])
        sync == SyncChangelistsWithGit(withDefault, workspacePath, data, actualSkippedFiles)
    IN  IF sync.threw THEN [threw |-> TRUE, cls |-> withDefault, cfg |-> cfg]
        ELSE [threw |-> FALSE,
              cls |-> sync.cls,
              cfg |-> IF sync.hasNewFiles \/ sync.hasRemovedFiles
                      THEN SaveStateFile(sync.cls, cfg, workspacePath, saveOk)
                      ELSE cfg]

\* loadState, the loop over the git workspace folders: an error of
\* loadWorkspaceState ends the loop and is logged
RECURSIVE LoadWorkspaces(_, _, _, _, _, _)
LoadWorkspaces(cls, cfg, flags, folders, lsOk, saveOk) ==
    IF folders = <<>> THEN [cls |-> cls, cfg |-> cfg, loadedFolders |-> <<>>]
    ELSE LET w == LoadWorkspaceState(cls, cfg, flags, Head(folders), lsOk, saveOk)
             rest == LoadWorkspaces(w.cls, w.cfg, flags, Tail(folders), lsOk, saveOk)
         IN  IF w.threw THEN [cls |-> w.cls, cfg |-> w.cfg, loadedFolders |-> <<>>]
             ELSE [rest EXCEPT !.loadedFolders = <<Head(folders)>> \o @]

\* no changelist operation yet
NoOperation == [op |-> "none", workspacePath |-> <<>>, name |-> <<>>, arg |-> <<>>,
                threw |-> FALSE, git |-> TRUE, changed |-> FALSE]

\* nothing has failed and addFile has set no flag
NoHistory == [failed |-> FALSE, added |-> [w \in Range(Workspaces) |-> {}]]

VARIABLES
    repo,        \* the git repository of the workspace
    now,         \* the clock (Date.now(), commit dates)
    pc,          \* position of the running command
    commits,     \* squashSelectedCommits: the selected commits array
    range,       \* the CommitRange returned by getCommitRange
    state,       \* the GitState returned by saveGitState
    newCommitHash,
    queue,       \* cherryPickCommits: the commits still to pick
    phase,       \* which cherryPickCommits call is running
    err,         \* the error squashSelectedCommits rejects with
    cmds,        \* mutating git commands issued by this attempt, in order
    faults,      \* gateway failures suffered so far
    attempts,    \* commands started so far
    repo0,       \* the repository when the command started
    skipped,     \* commits answered with cherry-pick --skip
    conflicted,  \* commits whose cherry-pick hit a conflict
    rangeFailed, \* a command of getCommitRange failed
    restores,    \* results of the restoreGitState calls of this attempt
    defaultMessage, \* prepareCommitMessage: the text put into the editor
    editResult,  \* showCommitMessageEditor: the user's answer
    newMessage,  \* the message returned by prepareCommitMessage
    running,     \* git processes started by execCommand that have not closed
    index,       \* skip-worktree flags and the modifications they hide from git
    index0,      \* the index when the command started
    changelists, \* ChangelistManager.changelists: key -> Changelist
    skipFlags,   \* per workspace, the files git marks skip-worktree
    configFile,  \* per workspace, the content of .vscode/changelists.json
    loaded,      \* a loadState call has completed
    last,        \* the last changelist operation and its outcome
    ops,         \* changelist operations so far
    hist         \* whether a changelist operation has failed so far, and the
                 \* flags set by addFile

vars == <<repo, now, pc, commits, range, state, newCommitHash, queue, phase, err, cmds,
          faults, attempts, repo0, skipped, conflicted, rangeFailed, restores,
          defaultMessage, editResult, newMessage, running, index, index0,
          changelists, skipFlags, configFile, loaded, last, ops, hist>>

\* the variables of the message step
msgVars == <<defaultMessage, editResult, newMessage>>

\* the variables only gitPullRebase reads or writes
pullVars == <<index, index0>>

\* the variables of the changelist manager
clVars == <<changelists, skipFlags, configFile, loaded, last, ops, hist>>

\* the variables of the git commands
gitVars == <<repo, pc, err, cmds, faults, attempts, repo0>>

\* the variables only gitSquashCommits reads or writes
squashVars == <<now, commits, range, state, newCommitHash, queue, phase, skipped, conflicted,
                rangeFailed, restores, defaultMessage, editResult, newMessage, running>>

NoRange == [ok |-> FALSE, failed |-> "none"]

NoState == [currentBranch |-> MainBranch, originalHead |-> 0, tempBranch |-> MainBranch,
            hasChanges |-> FALSE, stashName |-> MainBranch]

\* a linear history of n commits; commit i makes change i
InitialCommits(n, dates, msgs) ==
    [i \in 1..n |-> [parent |-> i - 1, chg |-> {i}, date |-> dates[i], msg |-> msgs[i]]]

\* the workspace when the extension is activated: a branch with a history
\* of at most maxHist commits whose messages are drawn from msgSet, with or
\* without uncommitted changes, and with some of debugFiles flagged
\* skip-worktree, modified or not
InitWith(maxHist, msgSet, debugFiles, flagSets, configs) ==
    /\ \E n \in 1..maxHist : \E dates \in [1..n -> 1..MaxDate] :
       \E msgs \in [1..n -> msgSet] : \E dirty \in BOOLEAN :
          repo = [commits |-> InitialCommits(n, dates, msgs),
                  branches |-> [b \in {MainBranch} |-> n],
                  head |-> MainBranch,
                  wt |-> IF dirty THEN {"w"} ELSE {},
                  stash |-> <<>>,
                  cp |-> "none"]
    /\ now = MaxDate
    /\ pc = "idle"
    /\ commits = <<>>
    /\ range = NoRange
    /\ state = NoState
    /\ newCommitHash = 0
    /\ queue = <<>>
    /\ phase = "none"
    /\ err = "none"
    /\ cmds = <<>>
    /\ faults = 0
    /\ attempts = 1
    /\ repo0 = repo
    /\ skipped = <<>>
    /\ conflicted = <<>>
    /\ rangeFailed = FALSE
    /\ restores = <<>>
    /\ defaultMessage = <<>>
    /\ editResult = "none"
    /\ newMessage = Undefined
    /\ running = 0
    /\ \E skip \in SUBSET debugFiles : \E hidden \in SUBSET skip :
          index = [skip |-> skip, hidden |-> hidden]
    /\ index0 = index
    /\ changelists = NoChangelists
    /\ skipFlags \in [Range(Workspaces) -> flagSets]
    /\ configFile \in [Range(Workspaces) -> configs]
    /\ loaded = FALSE
    /\ last = NoOperation
    /\ ops = 0
    /\ hist = NoHistory

\* every commit carries the same message
Init == InitWith(MaxHist, {<<"a">>}, {}, {{}}, {MissingConfig})

\* git gc between two commands: commits no branch and no stash reaches are
\* pruned.  Hashes are opaque, so the surviving commits are numbered anew
\* in their old order (a parent always precedes its children).
Prune(r) ==
    LET live == UNION {Range(Reachable(r.commits, r.branches[b])) : b \in DOMAIN r.branches}
        rank(h) == IF h = 0 THEN 0 ELSE Cardinality({x \in live : x <= h})
        old(k) == CHOOSE h \in live : rank(h) = k
    IN  [r EXCEPT !.commits = [k \in 1..Cardinality(live) |->
                                  [r.commits[old(k)] EXCEPT !.parent = rank(r.commits[old(k)].parent)]],
                  !.branches = [b \in DOMAIN r.branches |-> rank(r.branches[b])]]

\* ----------------------------------------------------------------- actions
\* whether the next command may suffer a gateway failure
Inject == IF faults < MaxFaults THEN {FALSE, TRUE} ELSE {FALSE}

\* issue one mutating command of the try block: on rejection control goes
\* to the catch clause with the command's error
Exec(cmd, arg, result, okpc) ==
    \E inj \in Inject :
        LET res == IF inj THEN GatewayFailure(repo) ELSE result
        IN  /\ repo' = res.r
            /\ cmds' = Append(cmds, <<cmd, arg>>)
            /\ faults' = IF inj THEN faults + 1 ELSE faults
            /\ pc' = IF res.ok THEN okpc ELSE "catch"
            /\ err' = IF res.ok THEN err ELSE cmd

\* gitSquashCommits up to the selection dialog: getCommits returns [] when
\* git log fails, and an empty list is reported as "no commits"
GitSquashCommits ==
    /\ pc = "idle"
    /\ \E inj \in Inject :
        /\ faults' = IF inj THEN faults + 1 ELSE faults
        /\ pc' = IF inj \/ GetCommits(repo) = <<>> THEN "done" ELSE "select"
        /\ err' = IF inj \/ GetCommits(repo) = <<>> THEN "noCommits" ELSE err
    /\ UNCHANGED <<repo, now, commits, range, state, newCommitHash, queue, phase, cmds,
                   attempts, repo0, skipped, conflicted, rangeFailed, restores>>
    /\ UNCHANGED msgVars
    /\ UNCHANGED running
    /\ UNCHANGED pullVars
    /\ UNCHANGED clVars

\* selectCommitsToSquash and the length checks of gitSquashCommits and
\* squashSelectedCommits.  quickPick.selectedItems holds the checked items
\* in the order of the list, which is the order of getCommits.
SelectCommitsToSquash ==
    /\ pc = "select"
    /\ \E picked \in SUBSET Range(GetCommits(repo)) :
       LET s == FilterIn(GetCommits(repo), picked) IN
        /\ commits' = s
        /\ pc' = IF SelectionVerdict(s) = "proceed" THEN "sort" ELSE "done"
        /\ err' = IF SelectionVerdict(s) = "selectAtLeastTwo" THEN "selectAtLeastTwo" ELSE err
    /\ UNCHANGED <<repo, now, range, state, newCommitHash, queue, phase, cmds, faults,
                   attempts, repo0, skipped, conflicted, rangeFailed, restores>>
    /\ UNCHANGED msgVars
    /\ UNCHANGED running
    /\ UNCHANGED pullVars
    /\ UNCHANGED clVars

\* squashSelectedCommits: commits.sort(...)
SortSelected ==
    /\ pc = "sort"
    /\ commits' = SortCommits(repo.commits, commits)
    /\ pc' = "range"
    /\ UNCHANGED <<repo, now, range, state, newCommitHash, queue, phase, err, cmds, faults,
                   attempts, repo0, skipped, conflicted, rangeFailed, restores>>
    /\ UNCHANGED msgVars
    /\ UNCHANGED running
    /\ UNCHANGED pullVars
    /\ UNCHANGED clVars

\* getCommitRange: fault 3 fails the git log of getCommits, which getCommits
\* answers with an empty list; 1 and 2 fail a rev-list, which rejects
ComputeRange ==
    /\ pc = "range"
    /\ \E fault \in (IF faults < MaxFaults THEN 0..3 ELSE {0}) :
        LET allCommits == IF fault = 3 THEN <<>> ELSE GetCommits(repo)
            res == GetCommitRange(repo, commits, allCommits, fault)
        IN  /\ range' = res
            /\ rangeFailed' = (fault # 0 \/ ~res.ok)
            /\ faults' = IF fault # 0 THEN faults + 1 ELSE faults
            /\ pc' = IF res.ok THEN "message" ELSE "done"
            /\ err' = IF res.ok THEN err ELSE res.failed
    /\ UNCHANGED <<repo, now, commits, state, newCommitHash, queue, phase, cmds,
                   attempts, repo0, skipped, conflicted, restores>>
    /\ UNCHANGED msgVars
    /\ UNCHANGED running
    /\ UNCHANGED pullVars
    /\ UNCHANGED clVars

\* prepareCommitMessage, commits.map(commit => getCommitMessage(...)): every
\* call runs up to its await, which spawns its git process, before
\* Promise.all is awaited
PrepareCommitMessage ==
    /\ pc = "message"
    /\ running' = running + Len(commits)
    /\ pc' = "messages"
    /\ UNCHANGED <<repo, now, commits, range, state, newCommitHash, queue, phase, err, cmds,
                   faults, attempts, repo0, skipped, conflicted, rangeFailed, restores>>
    /\ UNCHANGED msgVars
    /\ UNCHANGED pullVars
    /\ UNCHANGED clVars

\* one of the git log processes of getCommitMessage closes: with its output,
\* or with an error, on which Promise.all rejects and squashSelectedCommits
\* with it while the other processes go on
GetCommitMessageCloses ==
    /\ running > 0
    /\ pc \in {"messages", "done"}
    /\ running' = running - 1
    /\ \/ UNCHANGED <<pc, err, faults>>
       \/ /\ pc = "messages"
          /\ faults < MaxFaults
          /\ faults' = faults + 1
          /\ pc' = "done"
          /\ err' = "getCommitMessage"
    /\ UNCHANGED <<repo, now, commits, range, state, newCommitHash, queue, phase, cmds,
                   attempts, repo0, skipped, conflicted, rangeFailed, restores>>
    /\ UNCHANGED msgVars
    /\ UNCHANGED pullVars
    /\ UNCHANGED clVars

\* all messages are read: the default message, the editor and the test of
\* its result.  The user leaves the default text or clears it, and answers
\* OK or Cancel.
EditCommitMessage ==
    /\ pc = "messages"
    /\ running = 0
    /\ \E answer \in {"ok", "cancel"} : \E cleared \in BOOLEAN :
          LET text == DefaultMessage(CommitMessages(repo, commits))
              m == ShowCommitMessageEditor(IF cleared THEN <<>> ELSE text, answer)
          IN  /\ defaultMessage' = text
              /\ editResult' = answer
              /\ newMessage' = m
              /\ pc' = IF NoMessage(m) THEN "done" ELSE "save"
    /\ UNCHANGED <<repo, now, commits, range, state, newCommitHash, queue, phase, err, cmds,
                   faults, attempts, repo0, skipped, conflicted, rangeFailed, restores, running>>
    /\ UNCHANGED pullVars
    /\ UNCHANGED clVars

\* saveGitState, outside the try block
SaveState ==
    /\ pc = "save"
    /\ \E inj \in Inject :
        /\ faults' = IF inj THEN faults + 1 ELSE faults
        /\ state' = IF inj THEN state ELSE SaveGitState(repo, now)
        /\ pc' = IF inj THEN "done" ELSE "stash"
        /\ err' = IF inj THEN "saveGitState" ELSE err
    /\ UNCHANGED <<repo, now, commits, range, newCommitHash, queue, phase, cmds,
                   attempts, repo0, skipped, conflicted, rangeFailed, restores>>
    /\ UNCHANGED msgVars
    /\ UNCHANGED running
    /\ UNCHANGED pullVars
    /\ UNCHANGED clVars

\* if (state.hasChanges) git stash push -m stashName
StashPush ==
    /\ pc = "stash"
    /\ IF state.hasChanges
       THEN Exec("stash push", 0, GitStashPush(repo, state.stashName), "branch")
       ELSE pc' = "branch" /\ UNCHANGED <<repo, cmds, faults, err>>
    /\ UNCHANGED <<now, commits, range, state, newCommitHash, queue, phase,
                   attempts, repo0, skipped, conflicted, rangeFailed, restores>>
    /\ UNCHANGED msgVars
    /\ UNCHANGED running
    /\ UNCHANGED pullVars
    /\ UNCHANGED clVars

\* git checkout -b tempBranch
CheckoutTemp ==
    /\ pc = "branch"
    /\ Exec("checkout -b", 0, GitCheckoutNew(repo, state.tempBranch), "resetTemp")
    /\ UNCHANGED <<now, commits, range, state, newCommitHash, queue, phase,
                   attempts, repo0, skipped, conflicted, rangeFailed, restores>>
    /\ UNCHANGED msgVars
    /\ UNCHANGED running
    /\ UNCHANGED pullVars
    /\ UNCHANGED clVars

\* git reset --hard commits[0]^, then cherryPickCommits(commits)
ResetTemp ==
    /\ pc = "resetTemp"
    /\ Exec("reset", repo.commits[commits[1]].parent,
            GitResetHard(repo, repo.commits[commits[1]].parent), "pick")
    /\ queue' = commits
    /\ phase' = "squash"
    /\ UNCHANGED <<now, commits, range, state, newCommitHash,
                   attempts, repo0, skipped, conflicted, rangeFailed, restores>>
    /\ UNCHANGED msgVars
    /\ UNCHANGED running
    /\ UNCHANGED pullVars
    /\ UNCHANGED clVars

\* one iteration of the loop of cherryPickCommits: the cherry-pick and the
\* handling of its rejection
CherryPickCommits ==
    /\ pc = "pick"
    /\ queue # <<>>
    /\ LET c == Head(queue) IN
       \E inj \in Inject :
       \E res \in (IF inj THEN {GatewayFailure(repo)} ELSE GitCherryPick(repo, c)) :
       \E inj2 \in (IF ~inj /\ ~res.ok /\ faults < MaxFaults THEN {FALSE, TRUE} ELSE {FALSE}) :
        LET isEmpty == IsEmptyError(res.text)
            isConflict == ~isEmpty /\ IsConflictError(res.text)
            follow == IF isEmpty
                      THEN (IF inj2 THEN GatewayFailure(res.r) ELSE GitCherryPickSkip(res.r))
                      ELSE IF isConflict
                      THEN (IF inj2 THEN GatewayFailure(res.r) ELSE GitCherryPickAbort(res.r))
                      ELSE res
            thrown == IF res.ok \/ (isEmpty /\ follow.ok) THEN "none"
                      ELSE IF isEmpty THEN "cherry-pick --skip"
                      ELSE IF isConflict /\ ~follow.ok THEN "cherry-pick --abort"
                      ELSE IF res.r.cp = "conflict" THEN "conflict"
                      ELSE "cherry-pick"
        IN  /\ (inj2 => isEmpty \/ isConflict)
            /\ repo' = follow.r
            /\ cmds' = cmds \o << <<"cherry-pick", c>> >> \o
                       (IF res.ok THEN <<>>
                        ELSE IF isEmpty THEN << <<"cherry-pick --skip", c>> >>
                        ELSE IF isConflict THEN << <<"cherry-pick --abort", c>> >>
                        ELSE <<>>)
            /\ faults' = faults + (IF inj \/ inj2 THEN 1 ELSE 0)
            /\ skipped' = IF ~res.ok /\ isEmpty /\ follow.ok THEN Append(skipped, c) ELSE skipped
            /\ conflicted' = IF res.r.cp = "conflict" THEN Append(conflicted, c) ELSE conflicted
            /\ queue' = IF thrown = "none" THEN Tail(queue) ELSE queue
            /\ pc' = IF thrown = "none" THEN "pick" ELSE "catch"
            /\ err' = IF thrown = "none" THEN err ELSE thrown
    /\ UNCHANGED <<now, commits, range, state, newCommitHash, phase,
                   attempts, repo0, rangeFailed, restores>>
    /\ UNCHANGED msgVars
    /\ UNCHANGED running
    /\ UNCHANGED pullVars
    /\ UNCHANGED clVars

\* cherryPickCommits returns: what squashSelectedCommits does next
CherryPickReturn ==
    /\ pc = "pick"
    /\ queue = <<>>
    /\ pc' = IF phase = "squash" THEN "create" ELSE IF phase = "reapply" THEN "pick" ELSE "finally"
    /\ phase' = IF phase = "reapply" THEN "later" ELSE phase
    /\ queue' = IF phase = "reapply" THEN range.laterCommits ELSE queue
    /\ UNCHANGED <<repo, now, commits, range, state, newCommitHash, err, cmds, faults,
                   attempts, repo0, skipped, conflicted, rangeFailed, restores>>
    /\ UNCHANGED msgVars
    /\ UNCHANGED running
    /\ UNCHANGED pullVars
    /\ UNCHANGED clVars

\* createSquashedCommit
CreateSquashedCommit ==
    /\ pc = "create"
    /\ Exec("commit-tree", repo.commits[commits[1]].parent,
            GitCommitTree(repo, repo.commits[commits[1]].parent, now, newMessage.text),
            "checkoutCur")
    /\ newCommitHash' = Len(repo'.commits)
    /\ UNCHANGED <<now, commits, range, state, queue, phase,
                   attempts, repo0, skipped, conflicted, rangeFailed, restores>>
    /\ UNCHANGED msgVars
    /\ UNCHANGED running
    /\ UNCHANGED pullVars
    /\ UNCHANGED clVars

\* git checkout currentBranch
CheckoutCurrent ==
    /\ pc = "checkoutCur"
    /\ Exec("checkout", 0, GitCheckout(repo, state.currentBranch), "resetNew")
    /\ UNCHANGED <<now, commits, range, state, newCommitHash, queue, phase,
                   attempts, repo0, skipped, conflicted, rangeFailed, restores>>
    /\ UNCHANGED msgVars
    /\ UNCHANGED running
    /\ UNCHANGED pullVars
    /\ UNCHANGED clVars

\* git reset --hard newCommitHash, then cherryPickCommits(commitsToReapply)
ResetToSquashed ==
    /\ pc = "resetNew"
    /\ Exec("reset", newCommitHash, GitResetHard(repo, newCommitHash), "pick")
    /\ queue' = range.commitsToReapply
    /\ phase' = "reapply"
    /\ UNCHANGED <<now, commits, range, state, newCommitHash,
                   attempts, repo0, skipped, conflicted, rangeFailed, restores>>
    /\ UNCHANGED msgVars
    /\ UNCHANGED running
    /\ UNCHANGED pullVars
    /\ UNCHANGED clVars

\* a call of restoreGitState, and the error squashSelectedCommits goes on with
Restore(error, nextpc) ==
    \E fault \in (IF faults < MaxFaults THEN 0..5 ELSE {0}) : \E conflict \in BOOLEAN :
        LET rr == RestoreGitState(repo, state, error, fault, conflict)
        IN  /\ repo' = rr.r
            /\ cmds' = cmds \o rr.cmds
            /\ faults' = IF rr.injected THEN faults + 1 ELSE faults
            /\ restores' = Append(restores, [error |-> error, cleanupError |-> rr.cleanupError,
                                             injected |-> rr.injected])
            /\ err' = SurfacedError(err, rr.cleanupError)
            /\ pc' = nextpc

\* catch (error): restoreGitState(state, workspacePath, error); throw error
CatchRestore ==
    /\ pc = "catch"
    /\ Restore(TRUE, "finally")
    /\ UNCHANGED <<now, commits, range, state, newCommitHash, queue, phase,
                   attempts, repo0, skipped, conflicted, rangeFailed>>
    /\ UNCHANGED msgVars
    /\ UNCHANGED running
    /\ UNCHANGED pullVars
    /\ UNCHANGED clVars

\* finally: restoreGitState(state, workspacePath)
FinallyRestore ==
    /\ pc = "finally"
    /\ Restore(FALSE, "done")
    /\ UNCHANGED <<now, commits, range, state, newCommitHash, queue, phase,
                   attempts, repo0, skipped, conflicted, rangeFailed>>
    /\ UNCHANGED msgVars
    /\ UNCHANGED running
    /\ UNCHANGED pullVars
    /\ UNCHANGED clVars

\* the command has ended and its processes have closed; the user starts it
\* again later
NextCommand ==
    /\ pc = "done"
    /\ running = 0
    /\ attempts < MaxAttempts
    /\ attempts' = attempts + 1
    /\ \E t \in {now, now + 1} : now' = t
    /\ pc' = "idle"
    /\ commits' = <<>>
    /\ range' = NoRange
    /\ state' = NoState
    /\ newCommitHash' = 0
    /\ queue' = <<>>
    /\ phase' = "none"
    /\ err' = "none"
    /\ cmds' = <<>>
    /\ faults' = faults
    /\ repo' = Prune(repo)
    /\ repo0' = repo'
    /\ skipped' = <<>>
    /\ conflicted' = <<>>
    /\ rangeFailed' = FALSE
    /\ restores' = <<>>
    /\ defaultMessage' = <<>>
    /\ editResult' = "none"
    /\ newMessage' = Undefined
    /\ running' = 0
    /\ UNCHANGED pullVars
    /\ UNCHANGED clVars

Next ==
    \/ GitSquashCommits
    \/ SelectCommitsToSquash
    \/ SortSelected
    \/ ComputeRange
    \/ PrepareCommitMessage
    \/ GetCommitMessageCloses
    \/ EditCommitMessage
    \/ SaveState
    \/ StashPush
    \/ CheckoutTemp
    \/ ResetTemp
    \/ CherryPickCommits
    \/ CherryPickReturn
    \/ CreateSquashedCommit
    \/ CheckoutCurrent
    \/ ResetToSquashed
    \/ CatchRestore
    \/ FinallyRestore
    \/ NextCommand

Spec == Init /\ [][Next]_vars

\* the message step on histories whose commits carry different messages: the
\* command up to the answer of the message editor
MsgInit == InitWith(MaxMsgHist, Messages, {}, {{}}, {MissingConfig})

MsgNext ==
    \/ GitSquashCommits
    \/ SelectCommitsToSquash
    \/ SortSelected
    \/ ComputeRange
    \/ PrepareCommitMessage
    \/ GetCommitMessageCloses
    \/ EditCommitMessage

MsgSpec == MsgInit /\ [][MsgNext]_vars

\* ------------------------------------------------------------ gitPullRebase
\* getSkipWorktreeFiles: the files `git ls-files -v` marks with S; when the
\* command fails the error is logged and the list is empty
GetSkipWorktreeFiles(ix, failed) == IF failed THEN {} ELSE ix.skip

\* git update-index --no-skip-worktree <files>: git sees the modifications
\* of the files again
GitNoSkipWorktree(r, ix, files) ==
    [r |-> [r EXCEPT !.wt = r.wt \cup (ix.hidden \cap files)],
     ix |-> [skip |-> ix.skip \ files, hidden |-> ix.hidden \ files]]

\* git update-index --skip-worktree <files>: git no longer looks at the files
GitSkipWorktree(r, ix, files) ==
    [r |-> [r EXCEPT !.wt = r.wt \ files],
     ix |-> [skip |-> ix.skip \cup files, hidden |-> ix.hidden \cup (r.wt \cap files)]]

\* git ls-files -m: the modified files git sees
GitLsFilesModified(r) == r.wt

\* git pull origin --rebase: refused on a tree with visible changes;
\* otherwise the branch is up to date or gets one commit from upstream
GitPull(r, upstream, when) ==
    IF r.wt # {} THEN Res(FALSE, r, {"unstaged"})
    ELSE IF upstream
    THEN LET n == Len(r.commits) + 1
         IN  Res(TRUE, [r EXCEPT !.commits = Append(r.commits,
                                      [parent |-> HeadCommit(r), chg |-> {n},
                                       date |-> when, msg |-> <<"a">>]),
                                 !.branches[r.head] = n], {})
    ELSE Res(TRUE, r, {})

\* one awaited command of gitPullRebase: on rejection control goes to the
\* catch clause, which reports the error and ends the command
PullExec(cmd, arg, res, ix, okpc) ==
    \E inj \in Inject :
        LET ok == ~inj /\ res.ok
        IN  /\ repo' = IF inj THEN repo ELSE res.r
            /\ index' = IF ok THEN ix ELSE index
            /\ cmds' = Append(cmds, <<cmd, arg>>)
            /\ faults' = IF inj THEN faults + 1 ELSE faults
            /\ pc' = IF ok THEN okpc ELSE "done"
            /\ err' = IF ok THEN err ELSE cmd

\* gitPullRebase up to the workspace selection, which the user may dismiss
GitPullRebase ==
    /\ pc = "idle"
    /\ \E picked \in BOOLEAN : pc' = IF picked THEN "stashUncommitted" ELSE "done"
    /\ UNCHANGED <<repo, err, cmds, faults, attempts, repo0>>
    /\ UNCHANGED pullVars
    /\ UNCHANGED squashVars
    /\ UNCHANGED clVars

\* git stash -u -m NOT_COMMIT_STASH
StashUncommitted ==
    /\ pc = "stashUncommitted"
    /\ PullExec("stash push", NOT_COMMIT_STASH, GitStashPush(repo, NOT_COMMIT_STASH),
                index, "unskipDebug")
    /\ UNCHANGED <<attempts, repo0, index0>>
    /\ UNCHANGED squashVars
    /\ UNCHANGED clVars

\* getSkipWorktreeFiles and, when there are such files, update-index
\* --no-skip-worktree
UnskipDebug ==
    /\ pc = "unskipDebug"
    /\ \E failed \in Inject :
          LET files == GetSkipWorktreeFiles(index, failed)
              g == GitNoSkipWorktree(repo, index, files)
          IN  IF files = {}
              THEN /\ pc' = "pull"
                   /\ faults' = IF failed THEN faults + 1 ELSE faults
                   /\ UNCHANGED <<repo, index, cmds, err>>
              ELSE PullExec("update-index --no-skip-worktree", files, Res(TRUE, g.r, {}),
                            g.ix, "stashDebug")
    /\ UNCHANGED <<attempts, repo0, index0>>
    /\ UNCHANGED squashVars
    /\ UNCHANGED clVars

\* git stash -u -m LOCAL_DEBUG_STASH
StashDebug ==
    /\ pc = "stashDebug"
    /\ PullExec("stash push", LOCAL_DEBUG_STASH, GitStashPush(repo, LOCAL_DEBUG_STASH),
                index, "pull")
    /\ UNCHANGED <<attempts, repo0, index0>>
    /\ UNCHANGED squashVars
    /\ UNCHANGED clVars

\* git pull origin --rebase
PullOrigin ==
    /\ pc = "pull"
    /\ \E upstream \in (IF Len(repo.commits) <= MaxUpstream THEN BOOLEAN ELSE {FALSE}) :
          PullExec("pull", MainBranch, GitPull(repo, upstream, now), index, "restoreDebug")
    /\ UNCHANGED <<attempts, repo0, index0>>
    /\ UNCHANGED squashVars
    /\ UNCHANGED clVars

\* a restoreStash call of gitPullRebase: its errors are not caught there
PullRestoreStash(message, okpc) ==
    \E fault \in (IF faults < MaxFaults THEN {0, 4, 5} ELSE {0}) : \E conflict \in BOOLEAN :
        LET rs == RestoreStash(repo, message, fault, conflict)
            injected == fault = 4 \/ (fault = 5 /\ rs.cmds # <<>>)
        IN  /\ repo' = rs.res.r
            /\ cmds' = cmds \o [i \in 1..Len(rs.cmds) |-> <<"stash pop", repo.stash[rs.cmds[i][2]]>>]
            /\ faults' = IF injected THEN faults + 1 ELSE faults
            /\ pc' = IF rs.res.ok THEN okpc ELSE "done"
            /\ err' = IF rs.res.ok THEN err ELSE "restoreStash"

\* restoreStash(LOCAL_DEBUG_STASH)
RestoreDebug ==
    /\ pc = "restoreDebug"
    /\ PullRestoreStash(LOCAL_DEBUG_STASH, "reskipDebug")
    /\ UNCHANGED <<attempts, repo0>>
    /\ UNCHANGED pullVars
    /\ UNCHANGED squashVars
    /\ UNCHANGED clVars

\* git ls-files -m and, when it lists files, update-index --skip-worktree
ReskipDebug ==
    /\ pc = "reskipDebug"
    /\ \E failed \in Inject :
          LET modifiedFiles == GitLsFilesModified(repo)
              g == GitSkipWorktree(repo, index, modifiedFiles)
          IN  IF failed
              THEN /\ pc' = "done"
                   /\ err' = "ls-files"
                   /\ faults' = faults + 1
                   /\ UNCHANGED <<repo, index, cmds>>
              ELSE IF modifiedFiles = {}
              THEN /\ pc' = "restoreUncommitted"
                   /\ UNCHANGED <<repo, index, cmds, err, faults>>
              ELSE PullExec("update-index --skip-worktree", modifiedFiles,
                            Res(TRUE, g.r, {}), g.ix, "restoreUncommitted")
    /\ UNCHANGED <<attempts, repo0, index0>>
    /\ UNCHANGED squashVars
    /\ UNCHANGED clVars

\* restoreStash(NOT_COMMIT_STASH) and the end of the command
RestoreUncommitted ==
    /\ pc = "restoreUncommitted"
    /\ PullRestoreStash(NOT_COMMIT_STASH, "done")
    /\ UNCHANGED <<attempts, repo0>>
    /\ UNCHANGED pullVars
    /\ UNCHANGED squashVars
    /\ UNCHANGED clVars

\* the command has ended; the user goes on working, with or without new
\* uncommitted changes, and starts the command again
NextPull ==
    /\ pc = "done"
    /\ attempts < MaxPulls
    /\ attempts' = attempts + 1
    /\ \E edited \in BOOLEAN :
          repo' = IF edited THEN [repo EXCEPT !.wt = repo.wt \cup {"w"}] ELSE repo
    /\ repo0' = repo'
    /\ index0' = index
    /\ pc' = "idle"
    /\ err' = "none"
    /\ cmds' = <<>>
    /\ UNCHANGED <<faults, index>>
    /\ UNCHANGED squashVars
    /\ UNCHANGED clVars

\* a workspace with one commit, with or without uncommitted changes and
\* debug files
PullInit == InitWith(1, {<<"a">>}, DebugFiles, {{}}, {MissingConfig})

PullNext ==
    \/ GitPullRebase
    \/ StashUncommitted
    \/ UnskipDebug
    \/ StashDebug
    \/ PullOrigin
    \/ RestoreDebug
    \/ ReskipDebug
    \/ RestoreUncommitted
    \/ NextPull

PullSpec == PullInit /\ [][PullNext]_vars

\* ------------------------------------------------------------------ claims
\* the selected commit every other selected commit descends from
OldestSelected(cs, sel) == CHOOSE h \in Range(sel) : \A x \in Range(sel) : IsAncestor(cs, h, x)

NewestSelected(cs, sel) == CHOOSE h \in Range(sel) : \A x \in Range(sel) : IsAncestor(cs, x, h)

\* the anchor: the parent of the earliest selected commit
Anchor(cs, sel) == cs[OldestSelected(cs, sel)].parent

\* the commits after the anchor up to the tip of branch b, oldest first
Segment(r, b, anchor) == Reverse(RevList(r.commits, r.branches[b], anchor))

NoDuplicates(s) == Cardinality(Range(s)) = Len(s)

OldestFirst(cs, s) == \A i, j \in 1..Len(s) : i < j => IsAncestor(cs, s[i], s[j])

\* the catch clause ran: a command of the try block was rejected
TryFailed == restores # <<>> /\ restores[1].error

\* no command of restoreGitState suffered a gateway failure of its own
RestoreUndisturbed == \A i \in 1..Len(restores) : ~restores[i].injected

\* the squash ran to its end without an error
Squashed == pc = "done" /\ err = "none" /\ restores # <<>> /\ ~restores[1].error

\* C1: the three sequences of getCommitRange are pairwise disjoint and hold
\* exactly the commits from the anchor to the branch tip, each once
C1_RangePartitionsSegment ==
    (pc = "message" /\ ~rangeFailed /\ Anchor(repo.commits, commits) # 0) =>
        LET all == range.commitsToSquash \o range.commitsToReapply \o range.laterCommits
        IN  /\ NoDuplicates(all)
            /\ Range(all) = Range(Segment(repo, repo.head, Anchor(repo.commits, commits)))

\* C5: laterCommits is ordered oldest first
C5_LaterOldestFirst ==
    (pc = "message") => OldestFirst(repo.commits, range.laterCommits)

\* C6: after the sort the first selected commit is an ancestor of every other
\* selected commit and the last one a descendant of every other
C6_SortedByAncestry ==
    (pc = "range") =>
        /\ commits[1] = OldestSelected(repo.commits, commits)
        /\ commits[Len(commits)] = NewestSelected(repo.commits, commits)

\* what the commits of a sequence change, in order
Changes(cs, s) == [i \in 1..Len(s) |-> cs[s[i]].chg]

\* the history the squash is meant to produce from the anchor on: one
\* commit with the selected commits' changes, then the unselected commits
\* in their original order
ExpectedChanges(r, b, sel) ==
    LET seg == Segment(r, b, Anchor(r.commits, sel))
        kept == FilterIn(seg, Range(seg) \ Range(sel))
    IN  << UNION {r.commits[h].chg : h \in Range(sel)} >> \o Changes(r.commits, kept)

\* C2: when a command of the try block failed, the command ends with the
\* original branch checked out and its tip at originalHead
C2_BranchRestoredAfterFailure ==
    (pc = "done" /\ TryFailed /\ RestoreUndisturbed) =>
        /\ repo.head = state.currentBranch
        /\ repo.branches[state.currentBranch] = state.originalHead

\* C3: when the tree was dirty at capture and a command of the try block
\* failed, the command ends with the uncommitted changes back in the working
\* tree and nothing of them left in the stash
C3_ChangesRestoredAfterFailure ==
    (pc = "done" /\ TryFailed /\ RestoreUndisturbed /\ state.hasChanges) =>
        /\ repo.wt = repo0.wt
        /\ repo.stash = repo0.stash

\* C4: after a successful squash the history from the anchor to the tip is
\* the squashed commit followed by the changes of the unselected commits in
\* their original order
C4_SquashedThenUnselectedInOrder ==
    (Squashed /\ faults = 0 /\ conflicted = <<>> /\ skipped = <<>>
        /\ OldestFirst(repo0.commits, commits)) =>
        Changes(repo.commits,
                Segment(repo, state.currentBranch, Anchor(repo0.commits, commits)))
            = ExpectedChanges(repo0, state.currentBranch, commits)

\* C7: a successful squash of k commits, none skipped, leaves k - 1 fewer
\* commits between the anchor and the tip
C7_SquashRemovesAllButOne ==
    (Squashed /\ skipped = <<>>) =>
        Len(Segment(repo, state.currentBranch, Anchor(repo0.commits, commits)))
            = Len(Segment(repo0, state.currentBranch, Anchor(repo0.commits, commits)))
              - (Len(commits) - 1)

\* C8: once a command of getCommitRange has failed, no mutating command
\* (stash push, branch creation, reset, cherry-pick) is issued
C8_FailedRangeStopsTheSquash ==
    rangeFailed => cmds = <<>>

\* C9: a conflicting cherry-pick is aborted and never skipped, nothing is
\* picked after it, and the attempt fails with the conflict's error (stated
\* for runs in which no command suffers a gateway failure)
C9_ConflictAbortsTheAttempt ==
    (conflicted # <<>> /\ faults = 0) =>
        /\ Len(conflicted) = 1
        /\ conflicted[1] \notin Range(skipped)
        /\ pc \in {"catch", "finally", "done"}
        /\ err = "conflict"
        /\ <<"cherry-pick --abort", conflicted[1]>> \in Range(cmds)
        /\ ~\E i \in 1..Len(cmds) :
               /\ cmds[i] = <<"cherry-pick --abort", conflicted[1]>>
               /\ \E j \in (i + 1)..Len(cmds) : cmds[j][1] = "cherry-pick"

\* C10: a selection of fewer than two commits ends the command without any
\* mutating git command and with the repository untouched
C10_SmallSelectionRejected ==
    (pc \notin {"idle", "select"} /\ Len(commits) < 2) =>
        /\ pc = "done"
        /\ cmds = <<>>
        /\ repo = repo0

\* a command that ended on a selection of exactly one commit
C10_Witness ==
    pc = "done" /\ Len(commits) = 1 /\ cmds = <<>> /\ Len(repo.commits) > 1

\* C11: when the message editor is cancelled the command ends with no state
\* captured, no command issued (no stash, no scratch branch) and the
\* repository as it was before the command
C11_CancelLeavesRepositoryUntouched ==
    (editResult = "cancel") =>
        /\ pc = "done"
        /\ state = NoState
        /\ cmds = <<>>
        /\ repo = repo0

\* a command on a dirty working tree that ended at the cancelled editor
C11_Witness ==
    editResult = "cancel" /\ pc = "done" /\ Len(commits) >= 2 /\ repo.wt # {}

\* the messages of the selected commits
SelectedMessages == {repo.commits[h].msg : h \in Range(commits)}

\* the selected commits from the oldest to the newest
ByAncestry(cs, sel) == SortByKey(sel, [h \in Range(sel) |-> Len(Reachable(cs, h))])

\* C12: when all selected commits carry the same message, the default
\* message is that message, whatever the number of selected commits
C12_SameMessageIsTheDefault ==
    (editResult # "none" /\ Cardinality(SelectedMessages) = 1) =>
        \A h \in Range(commits) : defaultMessage = repo.commits[h].msg

\* three selected commits with the same message
C12_Witness ==
    /\ editResult # "none"
    /\ Len(commits) = 3
    /\ SelectedMessages = {<<"b">>}
    /\ defaultMessage = <<"b">>

\* C13: when the selected commits' messages differ, the default message is
\* their messages joined by a blank line, the oldest commit's message first
C13_JoinedOldestFirst ==
    (editResult # "none" /\ Cardinality(SelectedMessages) > 1) =>
        LET sel == ByAncestry(repo.commits, commits)
        IN  defaultMessage = Join([i \in 1..Len(sel) |-> repo.commits[sel[i]].msg], BlankLine)

\* C14: a command that captured the state ends with restoreGitState called
\* exactly once
C14_RestoreRunsOnce ==
    (pc = "done" /\ state # NoState) => Len(restores) = 1

\* C15: the second call of restoreGitState, made after a first call that ran
\* to its end, raises no error and leaves the repository (branches, checked
\* out branch, stash list, working tree) as the first call left it
C15_SecondRestoreChangesNothing ==
    [][(pc = "finally" /\ Len(restores) = 1 /\ ~restores[1].cleanupError) =>
          (repo' = repo /\ err' = err /\ pc' = "done")]_vars

\* a failed command on a dirty tree whose first restore ran to its end and
\* whose second restore has returned
C15_Witness ==
    /\ pc = "done"
    /\ Len(restores) = 2
    /\ ~restores[1].cleanupError
    /\ state.hasChanges
    /\ repo.wt # {}

\* C16: the error squashSelectedCommits rejects with stays the error that
\* was caught, whatever happens inside the two calls of restoreGitState
C16_CleanupNeverHidesTheError ==
    [][(pc \in {"catch", "finally"}) => err' = err]_vars

\* a conflict whose rollback failed
C16_Witness ==
    pc = "done" /\ TryFailed /\ restores[1].cleanupError /\ err = "conflict"

\* the commands restoreGitState issues
RestoreCommands == {"checkout", "reset", "branch -D", "stash pop"}

\* C17: after a failure of the validation, of the range computation or of
\* the message preparation, restoreGitState is not called and no checkout,
\* reset, branch deletion or stash pop is issued
C17_EarlyFailureNeedsNoCleanup ==
    (rangeFailed \/ err \in {"selectAtLeastTwo", "getCommitMessage"}) =>
        /\ restores = <<>>
        /\ \A i \in 1..Len(cmds) : cmds[i][1] \notin RestoreCommands

\* C18: when the oldest selected commit is the root commit, the command
\* fails before the state is captured and issues no mutating command
C18_RootSelectionRejected ==
    (Len(commits) >= 2 /\ Anchor(repo0.commits, commits) = 0) =>
        /\ pc \in {"sort", "range", "done"}
        /\ state = NoState
        /\ cmds = <<>>

\* C19: the scratch branch name saveGitState returns is not the name of a
\* branch of the repository (such as one an earlier attempt left behind)
C19_ScratchNameIsFresh ==
    (pc = "stash") => state.tempBranch \notin DOMAIN repo.branches

\* C20: after a successful squash the original branch is checked out, its
\* tip is not originalHead but a descendant of the squashed commit, and the
\* changes stashed at the start are back in the working tree
C20_SuccessKeepsRewrittenHistory ==
    (Squashed /\ RestoreUndisturbed) =>
        /\ repo.head = state.currentBranch
        /\ repo.branches[state.currentBranch] # state.originalHead
        /\ IsAncestor(repo.commits, newCommitHash, repo.branches[state.currentBranch])
        /\ (state.hasChanges => repo.wt = repo0.wt /\ repo.stash = repo0.stash)

\* the Rewriting phase: from the creation of the scratch branch until the
\* squashed commit has been created
Rewriting ==
    pc \in {"resetTemp", "create", "checkoutCur"} \/ (pc = "pick" /\ phase = "squash")

\* C23: during the Rewriting phase the scratch branch is checked out, it is
\* not the original branch, and the original branch stays at originalHead
C23_RewritingLeavesOriginalBranch ==
    Rewriting =>
        /\ repo.head = state.tempBranch
        /\ state.tempBranch # state.currentBranch
        /\ repo.branches[state.currentBranch] = state.originalHead

\* the selected commits are replayed and the scratch branch has moved
C23_Witness ==
    /\ pc = "create"
    /\ Len(commits) >= 2
    /\ repo.branches[state.tempBranch] # state.originalHead
    /\ repo.branches[state.tempBranch] # repo.commits[commits[1]].parent

\* C24: when the working tree is dirty at capture, the first command of the
\* attempt is the stash push, no other stash push follows, the scratch branch
\* is created only after the stash push has succeeded, and at that moment
\* the changes are in the stash and the working tree is clean
C24_StashPushComesFirst ==
    (repo0.wt # {}) =>
        /\ (cmds # <<>> =>
                /\ cmds[1] = <<"stash push", 0>>
                /\ \A i \in 2..Len(cmds) : cmds[i][1] # "stash push"
                /\ (Len(cmds) >= 2 /\ cmds[2][1] = "checkout -b" => err # "stash push"))
        /\ (pc = "branch" =>
                /\ cmds = << <<"stash push", 0>> >>
                /\ repo.wt = {}
                /\ repo.stash # <<>>
                /\ repo.stash[1].name = state.stashName
                /\ repo.stash[1].content = repo0.wt)

\* a rewrite under way on a tree that was dirty
C24_Witness ==
    /\ repo0.wt # {}
    /\ pc = "pick"
    /\ Len(cmds) >= 3
    /\ cmds[2] = <<"checkout -b", 0>>

IsPick(c) == c[1] = "cherry-pick"

\* the commits cherry-picked since the branch was reset to the squashed
\* commit, in the order of the cherry-pick commands
IntegrationPicks ==
    LET at == CHOOSE i \in 1..Len(cmds) : cmds[i] = <<"reset", newCommitHash>>
        picks == SelectSeq(SubSeq(cmds, at + 1, Len(cmds)), IsPick)
    IN  [i \in 1..Len(picks) |-> picks[i][2]]

IsPrefix(s, t) == Len(s) <= Len(t) /\ s = SubSeq(t, 1, Len(s))

\* C25: commitsToReapply is ordered oldest first, and the commits replayed
\* on the squashed commit are commitsToReapply followed by laterCommits, in
\* that order
C25_ReapplyBeforeLater ==
    /\ (range.ok => OldestFirst(repo.commits, range.commitsToReapply))
    /\ (phase \in {"reapply", "later"} =>
            IsPrefix(IntegrationPicks, range.commitsToReapply \o range.laterCommits))

\* a squash that replayed commits of both sequences
C25_Witness ==
    /\ Squashed
    /\ range.commitsToReapply # <<>>
    /\ range.laterCommits # <<>>
    /\ IntegrationPicks = range.commitsToReapply \o range.laterCommits

\* C26: a cherry-pick that changes nothing (the commit's changes are in the
\* tree already) is answered with --skip, which, unless a command suffers a
\* gateway failure, leaves the repository as it was, does not end the
\* attempt and leaves the remaining commits to be picked in order
C26_EmptyPickIsSkipped ==
    [][(/\ pc = "pick"
        /\ queue # <<>>
        /\ repo.cp = "none"
        /\ repo.commits[Head(queue)].chg \subseteq Tree(repo.commits, HeadCommit(repo))
        /\ faults' = faults) =>
          (/\ pc' = "pick"
           /\ queue' = Tail(queue)
           /\ skipped' = Append(skipped, Head(queue))
           /\ err' = err
           /\ repo' = repo)]_vars

\* a squash without conflict in which a commit was picked after a skip
C26_Witness ==
    /\ Squashed
    /\ conflicted = <<>>
    /\ \E i, j \in 1..Len(cmds) :
          i < j /\ cmds[i][1] = "cherry-pick --skip" /\ cmds[j][1] = "cherry-pick"

\* C27: when the squashed commit has been created, every selected commit has
\* been cherry-picked, the new commit's parent is the parent of the oldest
\* selected commit, its tree is the tree of the scratch branch and its
\* message is the message returned by the editor
C27_SquashedCommitShape ==
    (pc = "checkoutCur") =>
        /\ \A c \in Range(commits) : <<"cherry-pick", c>> \in Range(cmds)
        /\ repo.commits[newCommitHash].parent = Anchor(repo0.commits, commits)
        /\ Tree(repo.commits, newCommitHash)
              = Tree(repo.commits, repo.branches[state.tempBranch])
        /\ repo.commits[newCommitHash].msg = newMessage.text

\* the scratch branch was created by this attempt
ScratchCreated == <<"checkout -b", 0>> \in Range(cmds) /\ err # "checkout -b"

\* C28: when the command has ended after creating the scratch branch (and
\* no command of restoreGitState suffered a gateway failure of its own), the
\* scratch branch does not exist
C28_ScratchBranchDeleted ==
    (pc = "done" /\ ScratchCreated /\ RestoreUndisturbed) =>
        state.tempBranch \notin DOMAIN repo.branches

\* C29: at most one git process is running at any moment
C29_OneCommandAtATime ==
    running <= 1

\* ------------------------------------------------------ changelist manager
\* one call of the changelist manager: what was called, whether it threw,
\* whether the git commands it ran succeeded, and whether the map of
\* changelists is another one afterwards.  cls and flags are the changelists
\* and the skip-worktree flags the call leaves.
Operation(op, workspacePath, name, arg, threw, git, cls, flags) ==
    /\ ops < MaxOps
    /\ ops' = ops + 1
    /\ changelists' = cls
    /\ skipFlags' = flags
    /\ last' = [op |-> op, workspacePath |-> workspacePath, name |-> name, arg |-> arg,
                threw |-> threw, git |-> git, changed |-> cls # changelists]
    /\ hist' = [failed |-> \/ hist.failed
                           \/ threw
                           \/ ~git
                           \/ (op = "loadState" /\ arg # Workspaces),
                added |-> [w \in Range(Workspaces) |->
                             (hist.added[w] \cup
                                (IF op = "addFile" /\ ~threw /\ cls # changelists /\ w = workspacePath
                                 THEN Range(arg) ELSE {})) \cap flags[w]]]

\* loadState: called by the constructor and by refreshChangelists
LoadState ==
    /\ \E lsOk \in BOOLEAN : \E saveOk \in BOOLEAN :
          LET r == LoadWorkspaces(NoChangelists, configFile, skipFlags, Workspaces, lsOk, saveOk)
          IN  /\ Operation("loadState", <<>>, <<>>, r.loadedFolders, FALSE, lsOk, r.cls, skipFlags)
              /\ configFile' = r.cfg
    /\ loaded' = TRUE
    /\ UNCHANGED <<gitVars, squashVars, pullVars>>

\* addChangelist overwriting a changelist that exists
AddChangelistNoCheck ==
    /\ \E workspacePath \in Range(Workspaces) :
       \E name \in ListNames \cup {DEFAULT_CHANGELIST_NAME} : \E saveOk \in BOOLEAN :
          LET key == GetChangelistKey(workspacePath, name)
              cls == MapSet(changelists, key, Changelist(name, workspacePath, <<>>))
          IN  /\ Operation("addChangelist", workspacePath, name, <<>>, FALSE, TRUE, cls, skipFlags)
              /\ configFile' = SaveStateFile(cls, configFile, workspacePath, saveOk)
    /\ UNCHANGED loaded
    /\ UNCHANGED <<gitVars, squashVars, pullVars>>

\* ChangelistManager.addChangelist
AddChangelist ==
    /\ \E workspacePath \in Range(Workspaces) :
       \E name \in ListNames \cup {DEFAULT_CHANGELIST_NAME} : \E saveOk \in BOOLEAN :
          LET key == GetChangelistKey(workspacePath, name)
              cls == MapSet(changelists, key, Changelist(name, workspacePath, <<>>))
          IN  IF key \notin DOMAIN changelists
              THEN /\ Operation("addChangelist", workspacePath, name, <<>>, FALSE, TRUE,
                                cls, skipFlags)
                   /\ configFile' = SaveStateFile(cls, configFile, workspacePath, saveOk)
              ELSE /\ Operation("addChangelist", workspacePath, name, <<>>, FALSE, TRUE,
                                changelists, skipFlags)
                   /\ UNCHANGED configFile
    /\ UNCHANGED loaded
    /\ UNCHANGED <<gitVars, squashVars, pullVars>>

\* ChangelistManager.removeChangelist; failAt is the position of the file
\* whose update-index fails (0: none fails)
RemoveChangelist ==
    /\ \E workspacePath \in Range(Workspaces) :
       \E name \in ListNames \cup {DEFAULT_CHANGELIST_NAME} :
       \E saveOk \in BOOLEAN : \E failAt \in 0..Len(Files) :
          LET key == GetChangelistKey(workspacePath, name)
              files == changelists[key].items
              \* the loop of removeFile calls up to the failing one: each
              \* splices its file, then clears the flag, then saves
              cleared == {files[i] : i \in 1..(IF failAt = 0 THEN Len(files) ELSE failAt - 1)}
              flags == [skipFlags EXCEPT ![workspacePath] = @ \ cleared]
              left(n) == [changelists EXCEPT ![key].items = SubSeq(files, n + 1, Len(files))]
          IN  IF name = DEFAULT_CHANGELIST_NAME
              THEN /\ failAt = 0
                   /\ Operation("removeChangelist", workspacePath, name, <<>>, TRUE, TRUE,
                                changelists, skipFlags)
                   /\ UNCHANGED configFile
              ELSE IF key \notin DOMAIN changelists
              THEN /\ failAt = 0
                   /\ Operation("removeChangelist", workspacePath, name, <<>>, FALSE, TRUE,
                                changelists, skipFlags)
                   /\ UNCHANGED configFile
              ELSE IF failAt = 0
              THEN /\ Operation("removeChangelist", workspacePath, name, <<>>, FALSE, TRUE,
                                MapDelete(changelists, key), flags)
                   /\ configFile' = SaveStateFile(MapDelete(changelists, key), configFile,
                                                  workspacePath, saveOk)
              ELSE /\ failAt <= Len(files)
                   /\ Operation("removeChangelist", workspacePath, name, <<>>, TRUE, FALSE,
                                left(failAt), flags)
                   /\ configFile' = IF failAt > 1
                                    THEN SaveStateFile(left(failAt - 1), configFile,
                                                       workspacePath, saveOk)
                                    ELSE configFile
    /\ UNCHANGED loaded
    /\ UNCHANGED <<gitVars, squashVars, pullVars>>

\* renameChangelist that does not hand the items over
RenameChangelistEmpty ==
    /\ \E workspacePath \in Range(Workspaces) :
       \E oldName \in ListNames \cup {DEFAULT_CHANGELIST_NAME} :
       \E newName \in ListNames \cup {DEFAULT_CHANGELIST_NAME} : \E saveOk \in BOOLEAN :
          LET newKey == GetChangelistKey(workspacePath, newName)
              oldKey == GetChangelistKey(workspacePath, oldName)
              cls == MapSet(MapDelete(changelists, oldKey), newKey,
                            Changelist(newName, workspacePath, <<>>))
          IN  IF oldName = DEFAULT_CHANGELIST_NAME \/ newKey \in DOMAIN changelists
              THEN /\ Operation("renameChangelist", workspacePath, oldName, newName, TRUE, TRUE,
                                changelists, skipFlags)
                   /\ UNCHANGED configFile
              ELSE IF oldKey \in DOMAIN changelists
              THEN /\ Operation("renameChangelist", workspacePath, oldName, newName, FALSE, TRUE,
                                cls, skipFlags)
                   /\ configFile' = SaveStateFile(cls, configFile, workspacePath, saveOk)
              ELSE /\ Operation("renameChangelist", workspacePath, oldName, newName, FALSE, TRUE,
                                changelists, skipFlags)
                   /\ UNCHANGED configFile
    /\ UNCHANGED loaded
    /\ UNCHANGED <<gitVars, squashVars, pullVars>>

\* ChangelistManager.renameChangelist
RenameChangelist ==
    /\ \E workspacePath \in Range(Workspaces) :
       \E oldName \in ListNames \cup {DEFAULT_CHANGELIST_NAME} :
       \E newName \in ListNames \cup {DEFAULT_CHANGELIST_NAME} : \E saveOk \in BOOLEAN :
          LET newKey == GetChangelistKey(workspacePath, newName)
              oldKey == GetChangelistKey(workspacePath, oldName)
              cls == MapSet(MapDelete(changelists, oldKey), newKey,
                            Changelist(newName, workspacePath, changelists[oldKey].items))
          IN  IF oldName = DEFAULT_CHANGELIST_NAME \/ newKey \in DOMAIN changelists
              THEN /\ Operation("renameChangelist", workspacePath, oldName, newName, TRUE, TRUE,
                                changelists, skipFlags)
                   /\ UNCHANGED configFile
              ELSE IF oldKey \in DOMAIN changelists
              THEN /\ Operation("renameChangelist", workspacePath, oldName, newName, FALSE, TRUE,
                                cls, skipFlags)
                   /\ configFile' = SaveStateFile(cls, configFile, workspacePath, saveOk)
              ELSE /\ Operation("renameChangelist", workspacePath, oldName, newName, FALSE, TRUE,
                                changelists, skipFlags)
                   /\ UNCHANGED configFile
    /\ UNCHANGED loaded
    /\ UNCHANGED <<gitVars, squashVars, pullVars>>

\* Changelist.addFile on a changelist of the manager; indexOk: git
\* update-index succeeds
AddFile ==
    /\ \E key \in DOMAIN changelists : \E i \in 1..Len(Files) :
       \E indexOk \in BOOLEAN : \E saveOk \in BOOLEAN :
          LET cl == changelists[key]
              path == Files[i]
              cls == [changelists EXCEPT ![key].items = Append(@, path)]
          IN  IF path \in Range(cl.items)
              THEN /\ Operation("addFile", cl.workspacePath, cl.name, <<path>>, FALSE, TRUE,
                                changelists, skipFlags)
                   /\ UNCHANGED configFile
              ELSE /\ Operation("addFile", cl.workspacePath, cl.name, <<path>>, ~indexOk, indexOk,
                                cls,
                                IF indexOk
                                THEN [skipFlags EXCEPT ![cl.workspacePath] = @ \cup {path}]
                                ELSE skipFlags)
                   /\ configFile' = IF indexOk
                                    THEN SaveStateFile(cls, configFile, cl.workspacePath, saveOk)
                                    ELSE configFile
    /\ UNCHANGED loaded
    /\ UNCHANGED <<gitVars, squashVars, pullVars>>

\* Changelist.removeFile on a changelist of the manager
RemoveFile ==
    /\ \E key \in DOMAIN changelists : \E i \in 1..Len(Files) :
       \E indexOk \in BOOLEAN : \E saveOk \in BOOLEAN :
          LET cl == changelists[key]
              path == Files[i]
              index1 == IndexOf(cl.items, path) + 1
              cls == [changelists EXCEPT ![key].items =
                         SubSeq(@, 1, index1 - 1) \o SubSeq(@, index1 + 1, Len(@))]
          IN  IF path \notin Range(cl.items)
              THEN /\ Operation("removeFile", cl.workspacePath, cl.name, <<path>>, FALSE, TRUE,
                                changelists, skipFlags)
                   /\ UNCHANGED configFile
              ELSE /\ Operation("removeFile", cl.workspacePath, cl.name, <<path>>, ~indexOk,
                                indexOk, cls,
                                IF indexOk
                                THEN [skipFlags EXCEPT ![cl.workspacePath] = @ \ {path}]
                                ELSE skipFlags)
                   /\ configFile' = IF indexOk
                                    THEN SaveStateFile(cls, configFile, cl.workspacePath, saveOk)
                                    ELSE configFile
    /\ UNCHANGED loaded
    /\ UNCHANGED <<gitVars, squashVars, pullVars>>

\* the configuration files the extension may find
Configs == {MissingConfig, NoListConfig,
            DataConfig(<<[name |-> <<"A">>, items |-> <<"f1", "f2">>]>>),
            DataConfig(<<[name |-> DEFAULT_CHANGELIST_NAME, items |-> <<"f2", "f1">>],
                         [name |-> <<"B">>, items |-> <<"f1">>]>>)}

\* the manager has just been constructed; the first workspace has some
\* configuration file and skip-worktree flags, the second one is fresh
ClInit ==
    /\ InitWith(1, {<<"a">>}, {}, {{}, {"f1"}}, Configs)
    /\ repo.wt = {}
    /\ repo.commits[1].date = 1
    /\ configFile[Workspaces[2]] = MissingConfig
    /\ skipFlags[Workspaces[2]] = {}

ClNext ==
    \/ LoadState
    \/ AddChangelist
    \/ RemoveChangelist
    \/ RenameChangelist
    \/ AddFile
    \/ RemoveFile

ClSpec == ClInit /\ [][ClNext]_vars

\* ---------------------------------------------------- gitPullRebase claims
\* the command stashed the uncommitted changes it started with
StashedUncommitted ==
    /\ repo0.wt # {}
    /\ cmds # <<>>
    /\ cmds[1] = <<"stash push", NOT_COMMIT_STASH>>
    /\ ~(Len(cmds) = 1 /\ err = "stash push")

\* C21: when gitPullRebase has ended after stashing the uncommitted changes,
\* the changes are back in the working tree, whether or not a step failed
C21_StashedChangesRestored ==
    (pc = "done" /\ StashedUncommitted) => repo0.wt \subseteq repo.wt

IsSuffix(s, t) == Len(s) <= Len(t) /\ s = SubSeq(t, Len(t) - Len(s) + 1, Len(t))

\* gitPullRebase ran to its end without an error
Pulled == pc = "done" /\ err = "none" /\ cmds # <<>>

\* C30: after a successful gitPullRebase the modifications of the working
\* tree are those from before the command, and at no moment has the command
\* popped a stash entry that was in the list when it started
C30_PullKeepsWorkingTree ==
    /\ Pulled => repo.wt \cup index.hidden = repo0.wt \cup index0.hidden
    /\ IsSuffix(repo0.stash, repo.stash)

\* C31: after a successful gitPullRebase the files carrying the skip-worktree
\* flag are the files that carried it when the command started
C31_PullKeepsSkipWorktreeFlags ==
    Pulled => index.skip = index0.skip

\* ------------------------------------------------------- changelist claims
\* the Default changelists of a workspace
DefaultLists(workspacePath) ==
    {k \in DOMAIN changelists : /\ changelists[k].workspacePath = workspacePath
                                /\ changelists[k].name = DEFAULT_CHANGELIST_NAME}

\* C22: removeChangelist and renameChangelist called with the Default name
\* throw and leave the changelists as they were, and once loadState has
\* completed every git workspace has exactly one Default changelist
C22_DefaultAlwaysThere ==
    /\ (last.op \in {"removeChangelist", "renameChangelist"}
           /\ last.name = DEFAULT_CHANGELIST_NAME) => (last.threw /\ ~last.changed)
    /\ loaded => \A i \in 1..Len(Workspaces) : Cardinality(DefaultLists(Workspaces[i])) = 1

\* the files listed in the changelists of a workspace
ListedFiles(workspacePath) ==
    UNION {Range(changelists[k].items) :
             k \in {x \in DOMAIN changelists : changelists[x].workspacePath = workspacePath}}

\* C32: as long as no changelist operation has failed, every file listed in
\* a changelist of a workspace carries the skip-worktree flag there, and
\* every file whose flag was set by addFile is listed in a changelist
C32_ListedFilesAreFlagged ==
    ~hist.failed =>
        \A i \in 1..Len(Workspaces) :
            /\ ListedFiles(Workspaces[i]) \subseteq skipFlags[Workspaces[i]]
            /\ hist.added[Workspaces[i]] \subseteq ListedFiles(Workspaces[i])

\* C33: when git update-index fails inside addFile or removeFile, the call
\* throws and the changelists are what they were before the call
C33_FailedIndexUpdateChangesNothing ==
    (last.op \in {"addFile", "removeFile"} /\ ~last.git) => (last.threw /\ ~last.changed)

\* no two changelists of a workspace carry the same name
NamesUnique ==
    \A k1, k2 \in DOMAIN changelists :
        (/\ changelists[k1].workspacePath = changelists[k2].workspacePath
         /\ changelists[k1].name = changelists[k2].name) => k1 = k2

\* C34: the names of the changelists of a workspace stay unique;
\* addChangelist with a name that exists changes nothing, and
\* renameChangelist to a name that exists throws and changes nothing
C34_NamesStayUnique ==
    [][/\ NamesUnique'
       /\ (/\ ops' # ops
           /\ last'.op = "addChangelist"
           /\ GetChangelistKey(last'.workspacePath, last'.name) \in DOMAIN changelists)
             => changelists' = changelists
       /\ (/\ ops' # ops
           /\ last'.op = "renameChangelist"
           /\ GetChangelistKey(last'.workspacePath, last'.arg) \in DOMAIN changelists)
             => (last'.threw /\ changelists' = changelists)]_vars

\* a changelist with files was to be renamed to the name of another one
C34_Witness ==
    /\ last.op = "renameChangelist"
    /\ last.threw
    /\ last.name # DEFAULT_CHANGELIST_NAME
    /\ GetChangelistKey(last.workspacePath, last.name) \in DOMAIN changelists
    /\ changelists[GetChangelistKey(last.workspacePath, last.name)].items # <<>>
    /\ last.arg # last.name

\* the files a configuration file records
RecordedFiles(content) ==
    UNION {Range(content.changelists[i].items) : i \in 1..Len(content.changelists)}

C36_RenameChangesOnlyTheName ==
    [][(ops' # ops /\ last'.op = "renameChangelist" /\ last'.changed) =>
          LET oldKey == GetChangelistKey(last'.workspacePath, last'.name)
              newKey == GetChangelistKey(last'.workspacePath, last'.arg)
          IN  /\ DOMAIN changelists' = (DOMAIN changelists \ {oldKey}) \cup {newKey}
              /\ changelists'[newKey] = [changelists[oldKey] EXCEPT !.name = last'.arg]
              /\ \A k \in DOMAIN changelists \ {oldKey} : changelists'[k] = changelists[k]
              /\ skipFlags' = skipFlags]_vars

\* a changelist with two files has been renamed
C36_Witness ==
    /\ last.op = "renameChangelist"
    /\ last.changed
    /\ Len(changelists[GetChangelistKey(last.workspacePath, last.arg)].items) = 2

\* C37: a removeChangelist that deletes a changelist has cleared the flag
\* of every file it listed; when clearing a flag fails the changelist is not
\* deleted and still lists every file of its own whose flag is still set
C37_RemoveClearsFlagsFirst ==
    [][(/\ ops' # ops
        /\ last'.op = "removeChangelist"
        /\ last'.name # DEFAULT_CHANGELIST_NAME
        /\ GetChangelistKey(last'.workspacePath, last'.name) \in DOMAIN changelists) =>
          LET key == GetChangelistKey(last'.workspacePath, last'.name)
              files == Range(changelists[key].items)
          IN  /\ ~last'.git => key \in DOMAIN changelists'
              /\ IF key \notin DOMAIN changelists'
                 THEN files \cap skipFlags'[last'.workspacePath] = {}
                 ELSE /\ last'.threw
                      /\ (files \cap skipFlags'[last'.workspacePath])
                            \subseteq Range(changelists'[key].items)]_vars

====
